---- MODULE Spec2Model ----
(***************************************************************************)
(* goto: the file-backed alias store (database.rs), the alias record       *)
(* (alias.rs), the fuzzy matcher (fuzzy.rs) and the commands that drive    *)
(* them (commands/register.rs, tags.rs, navigate.rs, import_export.rs).    *)
(*                                                                         *)
(* Strings that the code inspects character by character (alias names and  *)
(* tags) are sequences of ASCII codes; paths, which the code only compares *)
(* and hands to the filesystem, are TLA+ strings.  Option<T> is a sequence *)
(* of length 0 (None) or 1 (Some).  Timestamps are clock readings.         *)
(***************************************************************************)
EXTENDS Integers, Sequences, FiniteSets, TLC

VARIABLES
    phase,      \* "none": no Database value exists; "open": one does
    aliases,    \* Database.aliases: HashMap<String, Alias>
    dirty,      \* Database.dirty
    toml_file,  \* the file at toml_path: <<>> if absent, else <<entries>>
    text_file,  \* the legacy file at text_path: <<>> if absent, else <<lines>>
    backup_file, \* the file at text_path + ".txt.bak", likewise
    peer,       \* a second invocation on the same files: [phase, aliases, dirty]
    now,        \* the wall clock read by Utc::now()
    op,         \* the operation that ran last
    result,     \* what it returned
    emitted,    \* what it printed on stdout (Option): a path, or a TOML payload
    prompted,   \* whether it called confirm()
    args,       \* the arguments it was called with
    stats,      \* what import returned: <<>>, or <<ImportResult, calls>>;
                \* after drop, the result of save that drop discarded;
                \* after a read, the value it returned
    steps       \* the number of operations run so far

vars == <<phase, aliases, dirty, toml_file, text_file, backup_file, peer, now,
          op, result, emitted, prompted, args, stats, steps>>

(***************************************************************************)
(* Bounds of the model.                                                    *)
(***************************************************************************)
MaxAliases == 3     \* operations that add records are cut off at this size
MaxUse == 2         \* navigate is cut off at this use_count
MaxTime == 1        \* the clock stops advancing here
MaxSteps == 3       \* a run is cut off after this many operations
MaxLen == 3         \* the strings handed to similarity are no longer than this

(***************************************************************************)
(* Characters and strings.                                                 *)
(***************************************************************************)
IsUpper(c) == c >= 65 /\ c <= 90
IsLower(c) == c >= 97 /\ c <= 122
IsDigit(c) == c >= 48 /\ c <= 57
IsAlnum(c) == IsUpper(c) \/ IsLower(c) \/ IsDigit(c)

\* char::to_lowercase on ASCII
lower_char(c) == IF IsUpper(c) THEN c + 32 ELSE c

\* str::to_lowercase
to_lowercase(s) == [i \in 1..Len(s) |-> lower_char(s[i])]

\* str::trim (ASCII white space)
IsSpace(c) == c = 32 \/ c = 9 \/ c = 10 \/ c = 13

RECURSIVE trim_start(_)
trim_start(s) ==
    IF s # <<>> /\ IsSpace(Head(s)) THEN trim_start(Tail(s)) ELSE s

RECURSIVE trim_end(_)
trim_end(s) ==
    IF s # <<>> /\ IsSpace(s[Len(s)]) THEN trim_end(SubSeq(s, 1, Len(s) - 1)) ELSE s

trim(s) == trim_end(trim_start(s))

\* Ord for String: lexicographic on bytes
RECURSIVE str_lt(_, _)
str_lt(a, b) ==
    IF b = <<>> THEN FALSE
    ELSE IF a = <<>> THEN TRUE
    ELSE IF Head(a) # Head(b) THEN Head(a) < Head(b)
    ELSE str_lt(Tail(a), Tail(b))

\* Vec<String>::sort (stable insertion into an ordered prefix)
RECURSIVE sort_insert(_, _)
sort_insert(sorted, x) ==
    IF sorted = <<>> THEN <<x>>
    ELSE IF str_lt(x, Head(sorted)) THEN <<x>> \o sorted
    ELSE <<Head(sorted)>> \o sort_insert(Tail(sorted), x)

RECURSIVE sort(_)
sort(v) == IF v = <<>> THEN <<>> ELSE sort_insert(sort(SubSeq(v, 1, Len(v) - 1)), v[Len(v)])

Range(s) == {s[i] : i \in 1..Len(s)}

\* the elements of a set of strings in ascending order
RECURSIVE sorted_seq(_)
sorted_seq(S) ==
    IF S = {} THEN <<>>
    ELSE LET m == CHOOSE x \in S : \A y \in S \ {x} : str_lt(x, y)
         IN <<m>> \o sorted_seq(S \ {m})

(***************************************************************************)
(* alias.rs: validation.                                                   *)
(***************************************************************************)
\* VALID_ALIAS_PATTERN  ^[a-zA-Z0-9][a-zA-Z0-9_.-]*$
VALID_ALIAS_PATTERN(s) ==
    /\ s # <<>>
    /\ IsAlnum(s[1])
    /\ \A i \in 2..Len(s) : IsAlnum(s[i]) \/ s[i] = 95 \/ s[i] = 46 \/ s[i] = 45

\* VALID_TAG_PATTERN  ^[a-zA-Z0-9][a-zA-Z0-9_-]*$
VALID_TAG_PATTERN(s) ==
    /\ s # <<>>
    /\ IsAlnum(s[1])
    /\ \A i \in 2..Len(s) : IsAlnum(s[i]) \/ s[i] = 95 \/ s[i] = 45

validate_alias(name) == name # <<>> /\ VALID_ALIAS_PATTERN(name)

validate_tag(t) == t # <<>> /\ VALID_TAG_PATTERN(t)

validate_path(path) == path # ""

(***************************************************************************)
(* alias.rs: the Alias record and its methods.                             *)
(***************************************************************************)
Alias(name, path, tags, use_count, last_used, created_at) ==
    [name |-> name, path |-> path, tags |-> tags, use_count |-> use_count,
     last_used |-> last_used, created_at |-> created_at]

\* Alias::new after its two validations have passed
Alias_new(name, path, t) == Alias(name, path, <<>>, 0, <<>>, t)

record_use(a, t) == [a EXCEPT !.use_count = @ + 1, !.last_used = <<t>>]

contains(v, x) == \E i \in 1..Len(v) : v[i] = x

add_tag(a, t) ==
    IF contains(a.tags, t) THEN a ELSE [a EXCEPT !.tags = sort(Append(@, t))]

\* position of the first occurrence, 0 if none
position(v, x) ==
    IF contains(v, x) THEN CHOOSE i \in 1..Len(v) : v[i] = x /\ \A j \in 1..(i - 1) : v[j] # x
    ELSE 0

remove_at(v, i) == SubSeq(v, 1, i - 1) \o SubSeq(v, i + 1, Len(v))

remove_tag(a, t) ==
    IF position(a.tags, t) = 0 THEN a ELSE [a EXCEPT !.tags = remove_at(@, position(a.tags, t))]

has_tag(a, t) == contains(a.tags, t)

(***************************************************************************)
(* The HashMap.                                                            *)
(***************************************************************************)
EmptyMap == [k \in {} |-> k]

map_insert(m, k, v) == [x \in DOMAIN m \cup {k} |-> IF x = k THEN v ELSE m[x]]

map_remove(m, k) == [x \in DOMAIN m \ {k} |-> m[x]]

(***************************************************************************)
(* TOML: what toml::to_string_pretty writes for an Alias and what          *)
(* toml::from_str reads back.  An entry is a table; a key that is missing  *)
(* from the table is None here.  Serialization omits last_used when it is  *)
(* None and writes every other field.                                      *)
(***************************************************************************)
Entry(name, path, tags, use_count, last_used, created_at) ==
    [name |-> name, path |-> path, tags |-> tags, use_count |-> use_count,
     last_used |-> last_used, created_at |-> created_at]

serialize(a) == Entry(a.name, a.path, <<a.tags>>, <<a.use_count>>, a.last_used, <<a.created_at>>)

\* serde defaults: tags -> [], use_count -> 0, last_used -> None, created_at -> Utc::now()
deserialize(e, t) ==
    Alias(e.name, e.path,
          IF e.tags = <<>> THEN <<>> ELSE e.tags[1],
          IF e.use_count = <<>> THEN 0 ELSE e.use_count[1],
          e.last_used,
          IF e.created_at = <<>> THEN t ELSE e.created_at[1])

\* for alias in db_file.aliases { self.aliases.insert(alias.name.clone(), alias) }
RECURSIVE insert_all(_, _, _)
insert_all(m, entries, t) ==
    IF entries = <<>> THEN m
    ELSE LET a == deserialize(Head(entries), t)
         IN insert_all(map_insert(m, a.name, a), Tail(entries), t)

\* the records of a map ordered by name, serialized
sorted_entries(m) ==
    LET names == sorted_seq(DOMAIN m)
    IN [i \in 1..Len(names) |-> serialize(m[names[i]])]

(***************************************************************************)
(* database.rs: Database.  A database value d is [aliases, dirty]; an      *)
(* operation that can fail returns [db, res] and one that touches the file *)
(* returns [db, file, res].                                                *)
(***************************************************************************)
Db(m, flag) == [aliases |-> m, dirty |-> flag]

\* load_toml: read, parse, clear, insert every entry under its own name
load_toml(file, t) == insert_all(EmptyMap, file[1], t)

\* load_entries, TOML branch and empty start
load_entries(file, t) ==
    IF file # <<>> THEN Db(load_toml(file, t), FALSE)
    ELSE Db(EmptyMap, FALSE)

\* the index of the last space of a line, 0 if it has none
RECURSIVE last_space(_, _)
last_space(line, i) ==
    IF i > Len(line) THEN 0
    ELSE LET later == last_space(line, i + 1)
         IN IF later # 0 THEN later
            ELSE IF line[i] = 32 THEN i
            ELSE 0

\* the index of the first space of a line, 0 if it has none
RECURSIVE first_space(_, _)
first_space(line, i) ==
    IF i > Len(line) THEN 0
    ELSE IF line[i] = 32 THEN i
    ELSE first_space(line, i + 1)

\* a String made of the characters the legacy files of the model hold
char_string(c) ==
    CASE c = 47 -> "/"
      [] c = 100 -> "d"
      [] c = 120 -> "x"
      [] c = 101 -> "e"
      [] c = 102 -> "f"
      [] c = 32 -> " "
      [] OTHER -> "?"

RECURSIVE from_chars(_)
from_chars(chars) ==
    IF chars = <<>> THEN "" ELSE char_string(Head(chars)) \o from_chars(Tail(chars))

\* the for loop of migrate_from_text_format over content.lines()
RECURSIVE migrate_lines(_, _, _)
migrate_lines(m, lines, t) ==
    IF lines = <<>> THEN m
    ELSE LET line == trim(Head(lines))
             at == first_space(line, 1)
             \* splitn(2, ' ')
             name == SubSeq(line, 1, at - 1)
             path == SubSeq(line, at + 1, Len(line))
         IN IF line = <<>> \/ line[1] = 35 THEN migrate_lines(m, Tail(lines), t)
            ELSE IF at = 0 THEN migrate_lines(m, Tail(lines), t)
            ELSE migrate_lines(map_insert(m, name,
                                          Alias(name, from_chars(path), <<>>, 0, <<>>, t)),
                               Tail(lines), t)

\* save that writes whether or not the store is dirty
save_always_writes(d, file, io_ok) ==
    IF ~io_ok THEN [db |-> d, file |-> file, res |-> "Io"]
    ELSE [db |-> [d EXCEPT !.dirty = FALSE],
          file |-> <<sorted_entries(d.aliases)>>,
          res |-> "Ok"]

\* save that reports success without writing
save_skips_write(d, file, io_ok) ==
    [db |-> [d EXCEPT !.dirty = FALSE], file |-> file, res |-> "Ok"]

\* save with the dirty flag cleared before the write is known to succeed
save_clears_early(d, file, io_ok) ==
    IF ~d.dirty THEN [db |-> d, file |-> file, res |-> "Ok"]
    ELSE IF ~io_ok THEN [db |-> [d EXCEPT !.dirty = FALSE], file |-> file, res |-> "Io"]
    ELSE [db |-> [d EXCEPT !.dirty = FALSE],
          file |-> <<sorted_entries(d.aliases)>>,
          res |-> "Ok"]

\* save: io_ok is whether create_dir_all and fs::write succeed
save(d, file, io_ok) ==
    IF ~d.dirty THEN [db |-> d, file |-> file, res |-> "Ok"]
    ELSE IF ~io_ok THEN [db |-> d, file |-> file, res |-> "Io"]
    ELSE [db |-> [d EXCEPT !.dirty = FALSE],
          file |-> <<sorted_entries(d.aliases)>>,
          res |-> "Ok"]

\* the migration with the rename ahead of the save
migrate_renames_first(text, backup, io_ok, rename_ok, t) ==
    LET migrated == Db(migrate_lines(EmptyMap, text[1], t), TRUE)
        saved == save(migrated, <<>>, io_ok)
        left == IF rename_ok THEN <<>> ELSE text
        moved == IF rename_ok THEN text ELSE backup
    IN IF saved.res # "Ok"
       THEN [db |-> migrated, file |-> <<>>, text |-> left, backup |-> moved, res |-> saved.res]
       ELSE [db |-> saved.db, file |-> saved.file, text |-> left, backup |-> moved, res |-> "Ok"]

\* migrate_from_text_format: [db, file, text, backup, res]; rename_ok is
\* whether fs::rename succeeds, its result is discarded.  When save fails
\* the half-built Database is dropped, and Drop tries the same save again
\* under the same conditions.
migrate_from_text_format(text, backup, io_ok, rename_ok, t) ==
    LET migrated == Db(migrate_lines(EmptyMap, text[1], t), TRUE)
        saved == save(migrated, <<>>, io_ok)
    IN IF saved.res # "Ok"
       THEN [db |-> migrated, file |-> <<>>, text |-> text, backup |-> backup, res |-> saved.res]
       ELSE IF rename_ok
       THEN [db |-> saved.db, file |-> saved.file, text |-> <<>>, backup |-> text, res |-> "Ok"]
       ELSE [db |-> saved.db, file |-> saved.file, text |-> text, backup |-> backup, res |-> "Ok"]

\* load_from_path: load_entries on a fresh Database
load_from_path(file, text, backup, io_ok, rename_ok, t) ==
    IF file # <<>> \/ text = <<>>
    THEN [db |-> load_entries(file, t), file |-> file, text |-> text, backup |-> backup,
          res |-> "Ok"]
    ELSE migrate_from_text_format(text, backup, io_ok, rename_ok, t)

\* fs::write is File::create, which empties the file, and then write_all,
\* which puts the content at the start of whatever the file holds by then:
\* content another process wrote in between stays behind the written part.
\* Exact for records of one serialized length.
write_at_start(old, content) ==
    IF Len(content) >= Len(old) THEN content
    ELSE content \o SubSeq(old, Len(content) + 1, Len(old))

get(d, name) == IF name \in DOMAIN d.aliases THEN <<d.aliases[name]>> ELSE <<>>

\* get_mut marks the store dirty whether or not the name is present
get_mut(d) == [d EXCEPT !.dirty = TRUE]

insert(d, a) == Db(map_insert(d.aliases, a.name, a), TRUE)

\* add without the check for an occupied name
add_upserts(d, a) == [db |-> Db(map_insert(d.aliases, a.name, a), TRUE), res |-> "Ok"]

add(d, a) ==
    IF a.name \in DOMAIN d.aliases THEN [db |-> d, res |-> "AlreadyExists"]
    ELSE [db |-> insert(d, a), res |-> "Ok"]

add_with_tags(d, a, tags) ==
    IF a.name \in DOMAIN d.aliases THEN [db |-> d, res |-> "AlreadyExists"]
    ELSE [db |-> insert(d, [a EXCEPT !.tags = sort(tags)]), res |-> "Ok"]

remove(d, name) == Db(map_remove(d.aliases, name), TRUE)

record_usage(d, name, t) ==
    IF name \in DOMAIN d.aliases
    THEN [db |-> Db([d.aliases EXCEPT ![name] = record_use(@, t)], TRUE), res |-> "Ok"]
    ELSE [db |-> d, res |-> "NotFound"]

\* rename_alias with the key moved and the name field left as it was
rename_alias_keeps_name(d, old_name, new_name) ==
    IF new_name \in DOMAIN d.aliases THEN [db |-> d, res |-> "AlreadyExists"]
    ELSE IF old_name \notin DOMAIN d.aliases THEN [db |-> d, res |-> "NotFound"]
    ELSE [db |-> Db(map_insert(map_remove(d.aliases, old_name), new_name,
                               d.aliases[old_name]), TRUE),
          res |-> "Ok"]

\* rename_alias starting the usage of the record afresh
rename_alias_resets_usage(d, old_name, new_name) ==
    IF new_name \in DOMAIN d.aliases THEN [db |-> d, res |-> "AlreadyExists"]
    ELSE IF old_name \notin DOMAIN d.aliases THEN [db |-> d, res |-> "NotFound"]
    ELSE [db |-> Db(map_insert(map_remove(d.aliases, old_name), new_name,
                               [d.aliases[old_name] EXCEPT !.name = new_name,
                                                           !.use_count = 0,
                                                           !.last_used = <<>>]), TRUE),
          res |-> "Ok"]

rename_alias(d, old_name, new_name) ==
    IF new_name \in DOMAIN d.aliases THEN [db |-> d, res |-> "AlreadyExists"]
    ELSE IF old_name \notin DOMAIN d.aliases THEN [db |-> d, res |-> "NotFound"]
    ELSE [db |-> Db(map_insert(map_remove(d.aliases, old_name), new_name,
                               [d.aliases[old_name] EXCEPT !.name = new_name]), TRUE),
          res |-> "Ok"]

set_tags(d, name, tags) ==
    IF name \in DOMAIN d.aliases
    THEN [db |-> Db([d.aliases EXCEPT ![name].tags = sort(tags)], TRUE), res |-> "Ok"]
    ELSE [db |-> d, res |-> "NotFound"]

\* get_all_tags: tag -> number of occurrences over all records
occurrences(v, x) == Cardinality({i \in 1..Len(v) : v[i] = x})

RECURSIVE tag_count(_, _, _)
tag_count(m, names, t) ==
    IF names = {} THEN 0
    ELSE LET n == CHOOSE x \in names : TRUE
         IN occurrences(m[n].tags, t) + tag_count(m, names \ {n}, t)

get_all_tags(d) ==
    LET keys == UNION {Range(d.aliases[n].tags) : n \in DOMAIN d.aliases}
    IN [t \in keys |-> tag_count(d.aliases, DOMAIN d.aliases, t)]

\* all_tags: flat_map over the records, sort, dedup
RECURSIVE flat_tags(_, _)
flat_tags(m, names) ==
    IF names = <<>> THEN <<>> ELSE m[Head(names)].tags \o flat_tags(m, Tail(names))

\* Vec::dedup drops an element equal to the one before it
RECURSIVE dedup(_)
dedup(v) ==
    IF Len(v) <= 1 THEN v
    ELSE IF v[1] = v[2] THEN dedup(Tail(v))
    ELSE <<v[1]>> \o dedup(Tail(v))

all_tags(d) == dedup(sort(flat_tags(d.aliases, sorted_seq(DOMAIN d.aliases))))

\* the methods that borrow the store immutably, and what each returns
ReadOps == {"get", "contains", "len", "is_empty", "all", "names", "get_all_tags", "all_tags"}

read(d, which, name) ==
    CASE which = "get" -> get(d, name)
      [] which = "contains" -> name \in DOMAIN d.aliases
      [] which = "len" -> Cardinality(DOMAIN d.aliases)
      [] which = "is_empty" -> DOMAIN d.aliases = {}
      [] which = "all" -> {d.aliases[n] : n \in DOMAIN d.aliases}
      [] which = "names" -> DOMAIN d.aliases
      [] which = "get_all_tags" -> get_all_tags(d)
      [] which = "all_tags" -> all_tags(d)

(***************************************************************************)
(* fuzzy.rs.  An f64 similarity 1.0 - d / m is kept as the pair [d, m];    *)
(* the boost 0.5 + (q / c) * 0.5 as the pair [q, c].                       *)
(***************************************************************************)
Min(a, b) == IF a <= b THEN a ELSE b
Max(a, b) == IF a >= b THEN a ELSE b

\* the row with the substitution cost always 1
RECURSIVE lev_row_cost_1(_, _, _, _, _)
lev_row_cost_1(c, s2, prev, curr, j) ==
    IF Len(curr) > Len(s2) THEN curr
    ELSE LET cell == Min(Min(prev[j + 1] + 1, curr[j] + 1), prev[j] + 1)
         IN lev_row_cost_1(c, s2, prev, Append(curr, cell), j + 1)

\* one row of the dynamic program: curr holds curr[0..j-1] of the code, and
\* is complete with Len(s2) + 1 cells
RECURSIVE lev_row(_, _, _, _, _)
lev_row(c, s2, prev, curr, j) ==
    IF Len(curr) > Len(s2) THEN curr
    ELSE LET cost == IF c = s2[j] THEN 0 ELSE 1
             cell == Min(Min(prev[j + 1] + 1, curr[j] + 1), prev[j] + cost)
         IN lev_row(c, s2, prev, Append(curr, cell), j + 1)

RECURSIVE lev_rows(_, _, _, _)
lev_rows(s1, s2, prev, i) ==
    IF i > Len(s1) THEN prev
    ELSE lev_rows(s1, s2, lev_row(s1[i], s2, prev, <<i>>, 1), i + 1)

levenshtein_distance(a, b) ==
    LET s1 == to_lowercase(a)
        s2 == to_lowercase(b)
    IN IF s1 = s2 THEN 0
       ELSE IF s1 = <<>> THEN Len(s2)
       ELSE IF s2 = <<>> THEN Len(s1)
       ELSE lev_rows(s1, s2, [j \in 1..(Len(s2) + 1) |-> j - 1], 1)[Len(s2) + 1]

\* similarity: [d, m] stands for 1.0 - d / m; 1.0 is [0, 1]
similarity(s1, s2) ==
    IF s1 = s2 THEN [d |-> 0, m |-> 1]
    ELSE IF to_lowercase(s1) = to_lowercase(s2) THEN [d |-> 0, m |-> 1]
    ELSE IF Max(Len(s1), Len(s2)) = 0 THEN [d |-> 0, m |-> 1]
    ELSE [d |-> levenshtein_distance(s1, s2), m |-> Max(Len(s1), Len(s2))]

\* str::contains on the lowercased strings
is_substring(query, candidate) ==
    LET q == to_lowercase(query)
        c == to_lowercase(candidate)
    IN \E i \in 0..(Len(c) - Len(q)) : SubSeq(c, i + 1, i + Len(q)) = q

\* ((1.0 - d / m) * 1000.0) as i32.  In f64 the product falls one short of
\* the exact value when d / m is 4/5 or 9/10 (199.99.. and 99.99..); for
\* m < 20 these are the only ratios where the two differ.
sim_score(sim) ==
    IF 5 * sim.d = 4 * sim.m THEN 199
    ELSE IF 10 * sim.d = 9 * sim.m THEN 99
    ELSE (1000 * (sim.m - sim.d)) \div sim.m

\* ((0.5 + (q / c) * 0.5) * 1000.0) as i32.  In f64 the product falls one
\* short of the exact value when q / c is 9/25 or 21/25 (679.99.. and
\* 919.99..); for c < 40 these are the only ratios where the two differ.
boost_score(q, c) ==
    IF 25 * q = 9 * c \/ 25 * q = 21 * c THEN ((500 * c + 500 * q) \div c) - 1
    ELSE (500 * c + 500 * q) \div c

\* sim >= 0.3 on the f64; agrees with the exact comparison for m < 40
sim_ge_03(sim) == 10 * (sim.m - sim.d) >= 3 * sim.m

\* find_matches without the boost for substring matches
score_candidate_unboosted(query, candidate) ==
    LET sim == similarity(query, candidate)
    IN IF sim_ge_03(sim) \/ is_substring(query, candidate)
       THEN <<[name |-> candidate, score |-> sim_score(sim)]>>
       ELSE <<>>

\* the (candidate, score) pair find_matches pushes, <<>> if it pushes none
score_candidate(query, candidate) ==
    LET sim == similarity(query, candidate)
        sub == is_substring(query, candidate)
        \* f64::max is monotone under the conversion to the score
        score == IF sub THEN Max(sim_score(sim), boost_score(Len(query), Len(candidate)))
                 ELSE sim_score(sim)
        \* a boosted value is at least 0.5
        boosted_ge_03 == sub \/ sim_ge_03(sim)
    IN IF boosted_ge_03 \/ sub THEN <<[name |-> candidate, score |-> score]>> ELSE <<>>

\* the comparison without then_with: by score alone
match_before_by_score(x, y) == x.score > y.score

\* b.1.cmp(&a.1).then_with(|| a.0.cmp(b.0)): TRUE when x sorts before y
match_before(x, y) ==
    \/ x.score > y.score
    \/ x.score = y.score /\ str_lt(x.name, y.name)

\* slice::sort_by, stable
RECURSIVE match_insert(_, _)
match_insert(sorted, x) ==
    IF sorted = <<>> THEN <<x>>
    ELSE IF match_before(x, Head(sorted)) THEN <<x>> \o sorted
    ELSE <<Head(sorted)>> \o match_insert(Tail(sorted), x)

RECURSIVE match_sort(_)
match_sort(v) ==
    IF v = <<>> THEN <<>>
    ELSE match_insert(match_sort(SubSeq(v, 1, Len(v) - 1)), v[Len(v)])

RECURSIVE push_matches(_, _)
push_matches(query, candidates) ==
    IF candidates = <<>> THEN <<>>
    ELSE score_candidate(query, Head(candidates)) \o push_matches(query, Tail(candidates))

\* candidates is the iterator's output, in the order it yields it
find_matches(query, candidates) ==
    IF query = <<>> THEN [i \in 1..Len(candidates) |-> [name |-> candidates[i], score |-> 0]]
    ELSE match_sort(push_matches(query, candidates))

\* every order in which a HashMap may yield the keys of m
Orders(S) ==
    {o \in [1..Cardinality(S) -> S] : \A i, j \in 1..Cardinality(S) : i # j => o[i] # o[j]}

(***************************************************************************)
(* The environment: the filesystem the paths point into, and stdin.        *)
(***************************************************************************)
\* "/d" is a directory, "/l" a symbolic link to it, "/f" a regular file;
\* nothing exists at "/x"
fs_kind(path) ==
    CASE path = "/d" -> "dir"
      [] path = "/l" -> "dir"
      [] path = "/f" -> "file"
      [] OTHER -> "missing"

exists(path) == fs_kind(path) # "missing"

\* is_dir answering as exists does
is_dir_any(path) == fs_kind(path) # "missing"

is_dir(path) == fs_kind(path) = "dir"

\* std::fs::canonicalize; <<>> when it fails
canonicalize(path) ==
    IF ~exists(path) THEN <<>>
    ELSE IF path = "/l" THEN <<"/d">>
    ELSE <<path>>

\* config.rs expand_path: "~" is the home directory, here "/d"
expand_path(path) ==
    LET expanded == IF path = "~" THEN "/d" ELSE path
    IN IF canonicalize(expanded) = <<>> THEN expanded ELSE canonicalize(expanded)[1]

\* confirm without the is_terminal test: it reads a line from whatever
\* stdin is
confirm_reads_anything(default, stdin) ==
    IF stdin.fail THEN [res |-> "Io", value |-> default, stdin |-> stdin]
    ELSE LET line == IF stdin.lines = <<>> THEN <<>> ELSE Head(stdin.lines)
             rest == IF stdin.lines = <<>> THEN <<>> ELSE Tail(stdin.lines)
             input == to_lowercase(trim(line))
         IN [res |-> "Ok",
             value |-> IF input = <<121>> \/ input = <<121, 101, 115>> THEN TRUE
                       ELSE IF input = <<110>> \/ input = <<110, 111>> THEN FALSE
                       ELSE default,
             stdin |-> [stdin EXCEPT !.lines = rest]]

\* confirm answering yes when stdin is not a terminal
confirm_yes(default, stdin) == [res |-> "Ok", value |-> TRUE, stdin |-> stdin]

\* lib.rs confirm.  stdin is [tty, fail, lines]: whether it is a terminal,
\* whether reading it fails, and the lines it still holds (none: end of
\* file, read_line returns an empty string).
confirm(default, stdin) ==
    IF ~stdin.tty THEN [res |-> "Ok", value |-> default, stdin |-> stdin]
    ELSE IF stdin.fail THEN [res |-> "Io", value |-> default, stdin |-> stdin]
    ELSE LET line == IF stdin.lines = <<>> THEN <<>> ELSE Head(stdin.lines)
             rest == IF stdin.lines = <<>> THEN <<>> ELSE Tail(stdin.lines)
             input == to_lowercase(trim(line))
             value == IF input = <<>> THEN default
                      ELSE IF input = <<121>> \/ input = <<121, 101, 115>> THEN TRUE
                      ELSE IF input = <<110>> \/ input = <<110, 111>> THEN FALSE
                      ELSE default
         IN [res |-> "Ok", value |-> value, stdin |-> [stdin EXCEPT !.lines = rest]]

(***************************************************************************)
(* commands/*.rs.  A command returns what it leaves behind: the database,  *)
(* the file, its result, the path it printed and whether it prompted.      *)
(***************************************************************************)
Out(d, file, res, path, asked) ==
    [db |-> d, file |-> file, res |-> res, emitted |-> path, prompted |-> asked]

\* navigate_entry without the save
navigate_entry_unsaved(d, file, name, asked, io_ok, t) ==
    LET entry == d.aliases[name]
    IN IF ~exists(entry.path) THEN Out(d, file, "DirectoryNotFound", <<>>, asked)
       ELSE IF ~is_dir(entry.path) THEN Out(d, file, "NotADirectory", <<>>, asked)
       ELSE Out(record_usage(d, name, t).db, file, "Ok", <<entry.path>>, asked)

\* navigate.rs: the steps navigate runs on an entry it has found
navigate_entry(d, file, name, asked, io_ok, t) ==
    LET entry == d.aliases[name]
    IN IF ~exists(entry.path) THEN Out(d, file, "DirectoryNotFound", <<>>, asked)
       ELSE IF ~is_dir(entry.path) THEN Out(d, file, "NotADirectory", <<>>, asked)
       ELSE LET used == record_usage(d, name, t)
                \* println! comes before save
                saved == save(used.db, file, io_ok)
            IN Out(saved.db, saved.file, saved.res, <<entry.path>>, asked)

take(v, n) == SubSeq(v, 1, Min(n, Len(v)))

\* the confidence test with find_matches' own threshold
high_confidence_low(score) == score >= 300

\* best_match.1 >= 700
high_confidence(score) == score >= 700

\* navigate.rs navigate; order is the order db.names() yields
navigate(d, file, alias, order, stdin, io_ok, t) ==
    IF get(d, alias) # <<>> THEN navigate_entry(d, file, alias, FALSE, io_ok, t)
    ELSE LET matches == take(find_matches(alias, order), 5)
         IN IF matches = <<>> THEN Out(d, file, "NotFound", <<>>, FALSE)
            ELSE IF high_confidence(matches[1].score)
            THEN LET suggested == matches[1].name
                     answer == confirm(FALSE, stdin)
                 IN IF answer.res # "Ok" THEN Out(d, file, "Io", <<>>, TRUE)
                    ELSE IF answer.value
                    THEN IF get(d, suggested) # <<>>
                         THEN navigate_entry(d, file, suggested, TRUE, io_ok, t)
                         ELSE Out(d, file, "Ok", <<>>, TRUE)
                    ELSE Out(d, file, "NavigationCancelled", <<>>, TRUE)
            ELSE Out(d, file, "NotFound", <<>>, FALSE)

\* register.rs validate_and_normalize_tags: [res, tags]
RECURSIVE normalize_loop(_, _)
normalize_loop(tags, normalized) ==
    IF tags = <<>> THEN [res |-> "Ok", tags |-> normalized]
    ELSE LET tg == to_lowercase(trim(Head(tags)))
         IN IF tg = <<>> THEN normalize_loop(Tail(tags), normalized)
            ELSE IF ~validate_tag(tg) THEN [res |-> "InvalidTag", tags |-> <<>>]
            ELSE IF contains(normalized, tg) THEN normalize_loop(Tail(tags), normalized)
            ELSE normalize_loop(Tail(tags), Append(normalized, tg))

validate_and_normalize_tags(tags) == normalize_loop(tags, <<>>)

\* the confirmation loop of register_with_tags: [res, prompted]
RECURSIVE confirm_new_tags(_, _, _, _)
confirm_new_tags(tags, existing_tags, stdin, asked) ==
    IF tags = <<>> THEN [res |-> "Ok", prompted |-> asked]
    ELSE IF Head(tags) \in existing_tags
    THEN confirm_new_tags(Tail(tags), existing_tags, stdin, asked)
    ELSE LET answer == confirm(FALSE, stdin)
         IN IF answer.res # "Ok" THEN [res |-> "Io", prompted |-> TRUE]
            ELSE IF ~answer.value THEN [res |-> "TagCreationCancelled", prompted |-> TRUE]
            ELSE confirm_new_tags(Tail(tags), existing_tags, answer.stdin, TRUE)

\* register.rs register_with_tags
register_with_tags(d, file, name, path, tags, force, stdin, io_ok, t) ==
    IF ~validate_alias(name) THEN Out(d, file, "InvalidAlias", <<>>, FALSE)
    ELSE LET norm == validate_and_normalize_tags(tags)
             existing_tags == DOMAIN get_all_tags(d)
             asked == IF norm.res = "Ok" /\ norm.tags # <<>> /\ ~force /\ existing_tags # {}
                      THEN confirm_new_tags(norm.tags, existing_tags, stdin, FALSE)
                      ELSE [res |-> "Ok", prompted |-> FALSE]
             path_str == expand_path(path)
         IN IF norm.res # "Ok" THEN Out(d, file, norm.res, <<>>, FALSE)
            ELSE IF asked.res # "Ok" THEN Out(d, file, asked.res, <<>>, asked.prompted)
            ELSE IF ~exists(path_str) THEN Out(d, file, "DirectoryNotFound", <<>>, asked.prompted)
            ELSE IF ~is_dir(path_str) THEN Out(d, file, "NotADirectory", <<>>, asked.prompted)
            ELSE LET added == add_with_tags(d, Alias(name, path_str, <<>>, 0, <<>>, t), norm.tags)
                     saved == save(added.db, file, io_ok)
                 IN IF added.res # "Ok" THEN Out(d, file, added.res, <<>>, asked.prompted)
                    ELSE Out(saved.db, saved.file, saved.res, <<>>, asked.prompted)

\* register.rs unregister
unregister(d, file, name, io_ok) ==
    LET removed == remove(d, name)
        saved == save(removed, file, io_ok)
    IN IF get(d, name) # <<>> THEN Out(saved.db, saved.file, saved.res, <<>>, FALSE)
       ELSE Out(removed, file, "NotFound", <<>>, FALSE)

\* register.rs rename
rename(d, file, old_name, new_name, io_ok) ==
    IF ~validate_alias(new_name) THEN Out(d, file, "InvalidAlias", <<>>, FALSE)
    ELSE LET renamed == rename_alias(d, old_name, new_name)
             saved == save(renamed.db, file, io_ok)
         IN IF renamed.res # "Ok" THEN Out(d, file, renamed.res, <<>>, FALSE)
            ELSE Out(saved.db, saved.file, saved.res, <<>>, FALSE)

\* tag comparing with the tag as typed, and storing its lowercase form
tag_compares_raw(d, file, alias, raw_tag, force, stdin, io_ok) ==
    LET tag_name == to_lowercase(trim(raw_tag))
        marked == get_mut(d)
        tagged == [marked EXCEPT !.aliases[alias] =
                      IF contains(@.tags, raw_tag) THEN @
                      ELSE [@ EXCEPT !.tags = sort(Append(@, tag_name))]]
        saved == save(tagged, file, io_ok)
    IN IF ~validate_tag(tag_name) THEN Out(d, file, "InvalidTag", <<>>, FALSE)
       ELSE IF alias \in DOMAIN d.aliases THEN Out(saved.db, saved.file, saved.res, <<>>, FALSE)
       ELSE Out(marked, file, "NotFound", <<>>, FALSE)

\* tags.rs tag
tag(d, file, alias, raw_tag, force, stdin, io_ok) ==
    LET tag_name == to_lowercase(trim(raw_tag))
        existing_tags == DOMAIN get_all_tags(d)
        is_new_tag == tag_name \notin existing_tags
        has_any_tags == existing_tags # {}
        ask == is_new_tag /\ has_any_tags /\ ~force
        answer == confirm(FALSE, stdin)
        marked == get_mut(d)
        tagged == [marked EXCEPT !.aliases[alias] = add_tag(@, tag_name)]
        saved == save(tagged, file, io_ok)
    IN IF ~validate_tag(tag_name) THEN Out(d, file, "InvalidTag", <<>>, FALSE)
       ELSE IF ask /\ answer.res # "Ok" THEN Out(d, file, "Io", <<>>, TRUE)
       ELSE IF ask /\ ~answer.value THEN Out(d, file, "TagCreationCancelled", <<>>, TRUE)
       ELSE IF alias \in DOMAIN d.aliases THEN Out(saved.db, saved.file, saved.res, <<>>, ask)
       ELSE Out(marked, file, "NotFound", <<>>, ask)

\* tags.rs untag
untag(d, file, alias, raw_tag, io_ok) ==
    LET tag_name == to_lowercase(trim(raw_tag))
        marked == get_mut(d)
        untagged == [marked EXCEPT !.aliases[alias] = remove_tag(@, tag_name)]
        saved == save(untagged, file, io_ok)
    IN IF alias \notin DOMAIN d.aliases THEN Out(marked, file, "NotFound", <<>>, FALSE)
       ELSE IF has_tag(d.aliases[alias], tag_name)
       THEN Out(saved.db, saved.file, saved.res, <<>>, FALSE)
       ELSE Out(marked, file, "Ok", <<>>, FALSE)

\* tags.rs rename_tag
rename_tag(d, file, raw_old, raw_new, dry_run, force, stdin, io_ok) ==
    LET old_tag == to_lowercase(trim(raw_old))
        new_tag == to_lowercase(trim(raw_new))
        all == DOMAIN get_all_tags(d)
        affected == {n \in DOMAIN d.aliases : has_tag(d.aliases[n], old_tag)}
        ask == ~force /\ ~dry_run
        answer == confirm(FALSE, stdin)
        retag(a) == LET cut == remove_tag(a, old_tag)
                    IN IF has_tag(cut, new_tag) THEN cut ELSE add_tag(cut, new_tag)
        applied == Db([n \in DOMAIN d.aliases |->
                          IF n \in affected THEN retag(d.aliases[n]) ELSE d.aliases[n]], TRUE)
        saved == save(applied, file, io_ok)
    IN IF ~validate_tag(new_tag) THEN Out(d, file, "InvalidTag", <<>>, FALSE)
       ELSE IF old_tag \notin all THEN Out(d, file, "TagNotFound", <<>>, FALSE)
       ELSE IF affected = {} THEN Out(d, file, "Ok", <<>>, FALSE)
       ELSE IF ask /\ answer.res # "Ok" THEN Out(d, file, "Io", <<>>, TRUE)
       ELSE IF ask /\ ~answer.value THEN Out(d, file, "TagRenameCancelled", <<>>, TRUE)
       ELSE IF dry_run THEN Out(d, file, "Ok", <<>>, FALSE)
       ELSE Out(saved.db, saved.file, saved.res, <<>>, ask)

(***************************************************************************)
(* commands/import_export.rs.                                              *)
(***************************************************************************)
\* the decimal digits of a number, as format!("{}", n) prints it
RECURSIVE to_string(_)
to_string(n) ==
    IF n < 10 THEN <<48 + n>> ELSE to_string(n \div 10) \o <<48 + (n % 10)>>

\* find_unique_name, the loop entered with the given suffix
RECURSIVE unique_from(_, _, _)
unique_from(base_name, existing_names, suffix) ==
    LET new_name == base_name \o <<95>> \o to_string(suffix)
    IN IF new_name \notin existing_names THEN new_name
       ELSE unique_from(base_name, existing_names, suffix + 1)

\* find_unique_name scanning upward from 3
find_unique_name_from_3(base_name, existing_names) == unique_from(base_name, existing_names, 3)

\* find_unique_name handing back the name it was given
find_unique_name_same(base_name, existing_names) == base_name

find_unique_name(base_name, existing_names) == unique_from(base_name, existing_names, 2)

ImportResult(imported, skipped, renamed, warnings) ==
    [imported |-> imported, skipped |-> skipped, renamed |-> renamed, warnings |-> warnings]

\* one iteration that skips a record whose path does not exist
import_one_skips_missing_path(st, import_alias, strategy) ==
    IF ~validate_alias(import_alias.name)
    THEN [st EXCEPT !.result.skipped = @ + 1,
                    !.result.warnings =
                        Append(@, [kind |-> "invalid", name |-> import_alias.name])]
    ELSE IF ~exists(import_alias.path)
    THEN [st EXCEPT !.result.skipped = @ + 1,
                    !.result.warnings =
                        Append(@, [kind |-> "path", name |-> import_alias.name])]
    ELSE IF import_alias.name \in st.existing_names
    THEN [st EXCEPT !.result.skipped = @ + 1]
    ELSE [st EXCEPT !.db = insert(st.db, import_alias),
                    !.existing_names = @ \cup {import_alias.name},
                    !.result.imported = @ + 1]

\* one iteration of the for loop of import_from_content:
\* st is [db, existing_names, result]
import_one(st, import_alias, strategy) ==
    LET r == st.result
        warned == IF ~exists(import_alias.path)
                  THEN Append(r.warnings, [kind |-> "path", name |-> import_alias.name])
                  ELSE r.warnings
    IN IF ~validate_alias(import_alias.name)
       THEN [st EXCEPT !.result.skipped = @ + 1,
                       !.result.warnings =
                           Append(@, [kind |-> "invalid", name |-> import_alias.name])]
       ELSE IF import_alias.name \in st.existing_names
       THEN CASE strategy = "Skip" ->
                   [st EXCEPT !.result.skipped = @ + 1, !.result.warnings = warned]
              [] strategy = "Overwrite" ->
                   [st EXCEPT !.db = insert(st.db, import_alias),
                              !.result.imported = @ + 1, !.result.warnings = warned]
              [] strategy = "Rename" ->
                   LET new_name == find_unique_name(import_alias.name, st.existing_names)
                   IN [st EXCEPT !.db = insert(st.db, [import_alias EXCEPT !.name = new_name]),
                                 !.existing_names = @ \cup {new_name},
                                 !.result.renamed = @ + 1, !.result.warnings = warned]
       ELSE [st EXCEPT !.db = insert(st.db, import_alias),
                       !.existing_names = @ \cup {import_alias.name},
                       !.result.imported = @ + 1, !.result.warnings = warned]

\* the loop with a save after every record
RECURSIVE import_loop_saving(_, _, _, _)
import_loop_saving(st, entries, strategy, t) ==
    IF entries = <<>> THEN st
    ELSE LET next == import_one(st, deserialize(Head(entries), t), strategy)
         IN import_loop_saving([next EXCEPT !.calls = @ \o <<"record", "save">>],
                               Tail(entries), strategy, t)

\* the for loop; calls lists what has been done so far, one "record" for
\* each payload record the loop body has run on
RECURSIVE import_loop(_, _, _, _)
import_loop(st, entries, strategy, t) ==
    IF entries = <<>> THEN st
    ELSE LET next == import_one(st, deserialize(Head(entries), t), strategy)
         IN import_loop([next EXCEPT !.calls = Append(@, "record")],
                        Tail(entries), strategy, t)

\* import_from_content: content is <<>> when it is not TOML that parses
\* into the file structure, else <<entries>>.  Returns [db, res, result,
\* calls].
import_from_content(d, content, strategy, t) ==
    IF content = <<>>
    THEN [db |-> d, res |-> "TomlDe", result |-> ImportResult(0, 0, 0, <<>>), calls |-> <<>>]
    ELSE IF content[1] = <<>>
    THEN [db |-> d, res |-> "NoAliases", result |-> ImportResult(0, 0, 0, <<>>), calls |-> <<>>]
    ELSE LET st == import_loop([db |-> d, existing_names |-> DOMAIN d.aliases,
                                result |-> ImportResult(0, 0, 0, <<>>), calls |-> <<>>],
                               content[1], strategy, t)
         IN [db |-> st.db, res |-> "Ok", result |-> st.result, calls |-> st.calls]

\* export_toml: the records sorted by name, serialized
export_toml(d) == sorted_entries(d.aliases)

\* export: what it prints on stdout, nothing for an empty store
export(d) == IF DOMAIN d.aliases = {} THEN <<>> ELSE <<export_toml(d)>>

\* toml::from_str on what export printed: an empty document parses and
\* has no aliases
printed_content(output) == IF output = <<>> THEN <<<<>>>> ELSE output

\* import that saves whatever import_from_content returned
import_saves_always(d, file, content, strategy, io_ok, t) ==
    LET done == import_from_content(d, content, strategy, t)
        saved == save(done.db, file, io_ok)
    IN [db |-> saved.db, file |-> saved.file,
        res |-> IF done.res # "Ok" THEN done.res ELSE saved.res, result |-> done.result,
        calls |-> Append(done.calls, "save")]

\* import: import_from_content, then one save
import(d, file, content, strategy, io_ok, t) ==
    LET done == import_from_content(d, content, strategy, t)
        saved == save(done.db, file, io_ok)
    IN IF done.res # "Ok"
       THEN [db |-> d, file |-> file, res |-> done.res, result |-> done.result,
             calls |-> done.calls]
       ELSE [db |-> saved.db, file |-> saved.file, res |-> saved.res, result |-> done.result,
             calls |-> Append(done.calls, "save")]

(***************************************************************************)
(* The values the operations are called with.                              *)
(***************************************************************************)
ab == <<97, 98>>            \* "ab"
abc == <<97, 98, 99>>       \* "abc"
dash_a == <<45, 97>>        \* "-a", not a valid alias name

AliasNames == {ab, abc}
NameInputs == AliasNames \cup {dash_a}

\* "ab", "abc", "a", "AB", "zz" and the empty query
Queries == {ab, abc, <<97>>, <<65, 66>>, <<122, 122>>, <<>>}

StoredPaths == {"/d", "/x"}
PathInputs == {"/l", "/f", "/x"}

\* "b", " B" and "-"
TagInputs == {<<98>>, <<32, 66>>, <<45>>}

\* [], ["B", "a", "b"], ["-"]
TagListInputs == {<<>>, <<<<66>>, <<97>>, <<98>>>>, <<<<45>>>>}

\* not a terminal, empty or a pipe holding "y\n"; a terminal that fails; a
\* terminal holding "y\n", "N\n" or nothing
StdinInputs ==
    {[tty |-> FALSE, fail |-> FALSE, lines |-> <<>>],
     [tty |-> FALSE, fail |-> FALSE, lines |-> <<<<121, 10>>>>],
     [tty |-> TRUE, fail |-> TRUE, lines |-> <<>>],
     [tty |-> TRUE, fail |-> FALSE, lines |-> <<<<121, 10>>>>],
     [tty |-> TRUE, fail |-> FALSE, lines |-> <<<<78, 10>>>>],
     [tty |-> TRUE, fail |-> FALSE, lines |-> <<>>]}

\* (force, stdin) as a command gets them: with --force, or without it on
\* each kind of stdin
Interactions ==
    {<<TRUE, [tty |-> FALSE, fail |-> FALSE, lines |-> <<>>]>>}
        \cup {<<FALSE, stdin>> : stdin \in StdinInputs}

Strategies == {"Skip", "Overwrite", "Rename"}

\* TOML files found on disk before the first load: none; one written by
\* hand with only the required keys; one written by hand with tags in mixed
\* case and two tables of the same name; one as save() writes it
InitFiles ==
    {<<>>,
     <<<<Entry(abc, "/d", <<>>, <<>>, <<>>, <<>>)>>>>,
     <<<<Entry(ab, "/x", <<<<<<98>>, <<65>>>>>>, <<1>>, <<0>>, <<0>>),
         Entry(ab, "/d", <<<<<<98>>, <<65>>>>>>, <<1>>, <<0>>, <<0>>)>>>>,
     <<<<Entry(ab, "/f", <<<<<<97>>>>>>, <<1>>, <<0>>, <<0>>),
         Entry(abc, "/x", <<<<<<97>>, <<98>>>>>>, <<0>>, <<>>, <<0>>)>>>>}

\* payloads handed to import: unparsable, without aliases, one record that
\* may collide, two records of one name, an invalid name before a valid one
Payloads ==
    {<<>>,
     <<<<>>>>,
     <<<<Entry(ab, "/x", <<<<<<66>>>>>>, <<1>>, <<>>, <<0>>)>>>>,
     <<<<Entry(abc, "/d", <<>>, <<>>, <<>>, <<>>),
         Entry(abc, "/f", <<>>, <<>>, <<>>, <<0>>)>>>>,
     <<<<Entry(dash_a, "/d", <<>>, <<>>, <<>>, <<0>>),
         Entry(ab, "/d", <<>>, <<>>, <<>>, <<0>>)>>>>}

\* legacy files: the one of test_migrate_from_text_format ("ab /d",
\* "# e", "", "abc /x"); two lines of one name ("ab /d", "ab /x"); a line
\* with spaces around it and inside its path, then a name alone
\* ("  ab /d e ", "abc"); only a comment ("#ab /d"); a name that
\* validate_alias refuses ("-a /d")
LegacyFiles ==
    {<<<<ab \o <<32, 47, 100>>, <<35, 32, 101>>, <<>>, abc \o <<32, 47, 120>>>>>>,
     <<<<ab \o <<32, 47, 100>>, ab \o <<32, 47, 120>>>>>>,
     <<<<<<32, 32>> \o ab \o <<32, 47, 100, 32, 101, 32>>, abc>>>>,
     <<<<<<35>> \o ab \o <<32, 47, 100>>>>>>,
     <<<<dash_a \o <<32, 47, 100>>>>>>}

(***************************************************************************)
(* The state machine.                                                      *)
(***************************************************************************)
db == Db(aliases, dirty)

\* no second invocation
NoPeer == [phase |-> "none", aliases |-> EmptyMap, dirty |-> FALSE]

WithinBounds(m) ==
    /\ Cardinality(DOMAIN m) <= MaxAliases
    /\ \A n \in DOMAIN m : m[n].use_count <= MaxUse

Init ==
    /\ phase = "none"
    /\ aliases = EmptyMap
    /\ dirty = FALSE
    /\ toml_file \in InitFiles
    /\ text_file = <<>>
    /\ backup_file = <<>>
    /\ peer = NoPeer
    /\ now = 0
    /\ op = "init"
    /\ result = "Ok"
    /\ emitted = <<>>
    /\ prompted = FALSE
    /\ args = <<>>
    /\ stats = <<>>
    /\ steps = 0

\* a first run after the move from the text format: a legacy file, with
\* or without a TOML file next to it
InitLegacy ==
    /\ phase = "none"
    /\ aliases = EmptyMap
    /\ dirty = FALSE
    /\ toml_file \in {<<>>, <<<<Entry(abc, "/d", <<>>, <<>>, <<>>, <<>>)>>>>}
    /\ text_file \in LegacyFiles
    /\ backup_file = <<>>
    /\ peer = NoPeer
    /\ now = 0
    /\ op = "init"
    /\ result = "Ok"
    /\ emitted = <<>>
    /\ prompted = FALSE
    /\ args = <<>>
    /\ stats = <<>>
    /\ steps = 0

\* two invocations about to start on a file that save wrote: three records
\* of one serialized length, "-a", "ab" and "zz"
InitRace ==
    /\ phase = "none"
    /\ aliases = EmptyMap
    /\ dirty = FALSE
    /\ toml_file = <<<<Entry(dash_a, "/d", <<<<>>>>, <<0>>, <<>>, <<0>>),
                      Entry(ab, "/d", <<<<>>>>, <<0>>, <<>>, <<0>>),
                      Entry(<<122, 122>>, "/x", <<<<>>>>, <<0>>, <<>>, <<0>>)>>>>
    /\ text_file = <<>>
    /\ backup_file = <<>>
    /\ peer = NoPeer
    /\ now = 0
    /\ op = "init"
    /\ result = "Ok"
    /\ emitted = <<>>
    /\ prompted = FALSE
    /\ args = <<>>
    /\ stats = <<>>
    /\ steps = 0

\* the record of the operation that ran
Record(name, a, res, path, asked, st) ==
    /\ steps < MaxSteps
    /\ steps' = steps + 1
    /\ op' = name
    /\ args' = a
    /\ result' = res
    /\ emitted' = path
    /\ prompted' = asked
    /\ stats' = st

\* an operation of this invocation that leaves the legacy files alone
Ran(name, a, res, path, asked, st) ==
    /\ Record(name, a, res, path, asked, st)
    /\ UNCHANGED <<text_file, backup_file, peer>>

\* what an operation of the store (no output, no prompt) leaves behind
Store(name, a, d, file, res) ==
    /\ WithinBounds(d.aliases)
    /\ aliases' = d.aliases
    /\ dirty' = d.dirty
    /\ toml_file' = file
    /\ Ran(name, a, res, <<>>, FALSE, <<>>)
    /\ UNCHANGED <<phase, now>>

\* what a command leaves behind
Command(name, a, o) ==
    /\ WithinBounds(o.db.aliases)
    /\ aliases' = o.db.aliases
    /\ dirty' = o.db.dirty
    /\ toml_file' = o.file
    /\ Ran(name, a, o.res, o.emitted, o.prompted, <<>>)
    /\ UNCHANGED <<phase, now>>

\* time passes
Tick ==
    /\ now < MaxTime
    /\ steps < MaxSteps
    /\ now' = now + 1
    /\ Ran("tick", <<>>, "Ok", <<>>, FALSE, <<>>)
    /\ UNCHANGED <<phase, aliases, dirty, toml_file>>

\* Database::load_from_path
Load ==
    /\ phase = "none"
    /\ steps < MaxSteps
    /\ \E io_ok \in BOOLEAN, rename_ok \in BOOLEAN :
          LET o == load_from_path(toml_file, text_file, backup_file, io_ok, rename_ok, now)
              migrating == toml_file = <<>> /\ text_file # <<>>
          IN /\ phase' = IF o.res = "Ok" THEN "open" ELSE "none"
             /\ aliases' = IF o.res = "Ok" THEN o.db.aliases ELSE EmptyMap
             /\ dirty' = IF o.res = "Ok" THEN o.db.dirty ELSE FALSE
             /\ toml_file' = o.file
             /\ text_file' = o.text
             /\ backup_file' = o.backup
             /\ Record("load",
                       IF migrating THEN [io_ok |-> io_ok, rename_ok |-> rename_ok] ELSE <<>>,
                       o.res, <<>>, FALSE, <<>>)
    /\ UNCHANGED <<peer, now>>

\* impl Drop for Database: save, its result discarded
Drop ==
    /\ phase = "open"
    /\ steps < MaxSteps
    /\ \E io_ok \in BOOLEAN :
          LET o == save(db, toml_file, io_ok)
          IN /\ toml_file' = o.file
             \* let _ = self.save(): stats keeps the result that drop discards
             /\ Ran("drop", [dirty |-> dirty], "Ok", <<>>, FALSE, <<o.res>>)
    /\ phase' = "none"
    /\ aliases' = EmptyMap
    /\ dirty' = FALSE
    /\ UNCHANGED now

Save ==
    /\ phase = "open"
    /\ steps < MaxSteps
    /\ \E io_ok \in BOOLEAN :
          LET o == save(db, toml_file, io_ok)
          IN Store("save", <<>>, o.db, o.file, o.res)

Insert ==
    /\ phase = "open"
    /\ steps < MaxSteps
    /\ \E name \in AliasNames, path \in StoredPaths :
          Store("insert", [name |-> name],
                insert(db, Alias_new(name, path, now)), toml_file, "Ok")

Add ==
    /\ phase = "open"
    /\ steps < MaxSteps
    /\ \E name \in AliasNames, path \in StoredPaths :
          LET o == add(db, Alias_new(name, path, now))
          IN Store("add", [name |-> name], o.db, toml_file, o.res)

AddWithTags ==
    /\ phase = "open"
    /\ steps < MaxSteps
    /\ \E name \in AliasNames, path \in StoredPaths, tags \in TagListInputs :
          LET o == add_with_tags(db, Alias_new(name, path, now), tags)
          IN Store("add_with_tags", [name |-> name], o.db, toml_file, o.res)

Remove ==
    /\ phase = "open"
    /\ steps < MaxSteps
    /\ \E name \in AliasNames :
          Store("remove", [name |-> name], remove(db, name), toml_file, "Ok")

RenameAlias ==
    /\ phase = "open"
    /\ steps < MaxSteps
    /\ \E old_name \in AliasNames, new_name \in AliasNames :
          LET o == rename_alias(db, old_name, new_name)
          IN Store("rename_alias", [old_name |-> old_name, new_name |-> new_name],
                   o.db, toml_file, o.res)

SetTags ==
    /\ phase = "open"
    /\ steps < MaxSteps
    /\ \E name \in AliasNames, tags \in TagListInputs :
          LET o == set_tags(db, name, tags)
          IN Store("set_tags", [name |-> name], o.db, toml_file, o.res)

RecordUsage ==
    /\ phase = "open"
    /\ steps < MaxSteps
    /\ \E name \in AliasNames :
          LET o == record_usage(db, name, now)
          IN Store("record_usage", [name |-> name], o.db, toml_file, o.res)

\* Database::add_tag
AddTag ==
    /\ phase = "open"
    /\ steps < MaxSteps
    /\ \E name \in AliasNames, t \in TagInputs :
          IF name \in DOMAIN aliases
          THEN Store("add_tag", [name |-> name],
                     Db([aliases EXCEPT ![name] = add_tag(@, t)], TRUE), toml_file, "Ok")
          ELSE Store("add_tag", [name |-> name], db, toml_file, "NotFound")

\* Database::remove_tag
RemoveTag ==
    /\ phase = "open"
    /\ steps < MaxSteps
    /\ \E name \in AliasNames, t \in TagInputs :
          IF name \in DOMAIN aliases
          THEN Store("remove_tag", [name |-> name],
                     Db([aliases EXCEPT ![name] = remove_tag(@, t)], TRUE), toml_file, "Ok")
          ELSE Store("remove_tag", [name |-> name], db, toml_file, "NotFound")

\* Database::clear_recent_history
ClearRecentHistory ==
    /\ phase = "open"
    /\ steps < MaxSteps
    /\ Store("clear_recent_history", <<>>,
             Db([n \in DOMAIN aliases |-> [aliases[n] EXCEPT !.last_used = <<>>]], TRUE),
             toml_file, "Ok")

Register ==
    /\ phase = "open"
    /\ steps < MaxSteps
    /\ \E name \in NameInputs, path \in PathInputs, tags \in TagListInputs,
          i \in Interactions, io_ok \in BOOLEAN :
          Command("register", [name |-> name, force |-> i[1], stdin |-> i[2]],
                  register_with_tags(db, toml_file, name, path, tags, i[1], i[2], io_ok, now))

Unregister ==
    /\ phase = "open"
    /\ steps < MaxSteps
    /\ \E name \in AliasNames, io_ok \in BOOLEAN :
          Command("unregister", [name |-> name], unregister(db, toml_file, name, io_ok))

Rename ==
    /\ phase = "open"
    /\ steps < MaxSteps
    /\ \E old_name \in AliasNames, new_name \in NameInputs, io_ok \in BOOLEAN :
          Command("rename", [old_name |-> old_name, new_name |-> new_name],
                  rename(db, toml_file, old_name, new_name, io_ok))

Tag ==
    /\ phase = "open"
    /\ steps < MaxSteps
    /\ \E alias \in AliasNames, raw_tag \in TagInputs, i \in Interactions,
          io_ok \in BOOLEAN :
          Command("tag", [alias |-> alias, tag |-> raw_tag, force |-> i[1], stdin |-> i[2]],
                  tag(db, toml_file, alias, raw_tag, i[1], i[2], io_ok))

Untag ==
    /\ phase = "open"
    /\ steps < MaxSteps
    /\ \E alias \in AliasNames, raw_tag \in TagInputs, io_ok \in BOOLEAN :
          Command("untag", [alias |-> alias, tag |-> raw_tag],
                  untag(db, toml_file, alias, raw_tag, io_ok))

RenameTag ==
    /\ phase = "open"
    /\ steps < MaxSteps
    /\ \E raw_old \in TagInputs, raw_new \in TagInputs, dry_run \in BOOLEAN,
          i \in Interactions, io_ok \in BOOLEAN :
          Command("rename_tag", [old_tag |-> raw_old, new_tag |-> raw_new],
                  rename_tag(db, toml_file, raw_old, raw_new, dry_run, i[1], i[2], io_ok))

Navigate ==
    /\ phase = "open"
    /\ steps < MaxSteps
    /\ \E alias \in Queries, order \in Orders(DOMAIN aliases),
          stdin \in StdinInputs, io_ok \in BOOLEAN :
          Command("navigate", [alias |-> alias, stdin |-> stdin],
                  navigate(db, toml_file, alias, order, stdin, io_ok, now))

Import ==
    /\ phase = "open"
    /\ steps < MaxSteps
    /\ \E content \in Payloads, strategy \in Strategies, io_ok \in BOOLEAN :
          LET o == import(db, toml_file, content, strategy, io_ok, now)
          IN /\ WithinBounds(o.db.aliases)
             /\ aliases' = o.db.aliases
             /\ dirty' = o.db.dirty
             /\ toml_file' = o.file
             /\ Ran("import", [content |-> content, strategy |-> strategy], o.res,
                    <<>>, FALSE, IF o.res = "Ok" THEN <<o.result, o.calls>> ELSE <<>>)
             /\ UNCHANGED <<phase, now>>

\* get, contains, len, is_empty, all, names, get_all_tags, all_tags
Read ==
    /\ phase = "open"
    /\ steps < MaxSteps
    /\ \E which \in ReadOps, name \in AliasNames :
          /\ aliases' = aliases
          /\ dirty' = dirty
          /\ toml_file' = toml_file
          /\ Ran(which, [name |-> name], "Ok", <<>>, FALSE, <<read(db, which, name)>>)
    /\ UNCHANGED <<phase, now>>

Export ==
    /\ phase = "open"
    /\ steps < MaxSteps
    /\ aliases' = aliases
    /\ dirty' = dirty
    /\ toml_file' = toml_file
    /\ Ran("export", <<>>, "Ok", export(db), FALSE, <<>>)
    /\ UNCHANGED <<phase, now>>

\* the store driven through its own methods
Next ==
    \/ Tick
    \/ Load
    \/ Drop
    \/ Save
    \/ Insert
    \/ Add
    \/ AddWithTags
    \/ Remove
    \/ RenameAlias
    \/ SetTags
    \/ RecordUsage
    \/ AddTag
    \/ RemoveTag
    \/ ClearRecentHistory

Spec == Init /\ [][Next]_vars

\* the store driven through the commands that fail as a whole
NextCommands ==
    \/ Load
    \/ Drop
    \/ Register
    \/ Unregister
    \/ Rename
    \/ Tag
    \/ Navigate

SpecCommands == Init /\ [][NextCommands]_vars

\* the resolver
NextNavigate ==
    \/ Tick
    \/ Load
    \/ Drop
    \/ Navigate

SpecNavigate == Init /\ [][NextNavigate]_vars

\* everything that writes tags
NextTags ==
    \/ Load
    \/ Drop
    \/ Register
    \/ Tag
    \/ Untag
    \/ RenameTag
    \/ AddWithTags
    \/ SetTags
    \/ Import

SpecTags == Init /\ [][NextTags]_vars

\* the operations that put a record under a name or take one away
NextNames ==
    \/ Load
    \/ Drop
    \/ Insert
    \/ Add
    \/ AddWithTags
    \/ Remove
    \/ RenameAlias
    \/ Import

SpecNames == Init /\ [][NextNames]_vars

\* the store on its first runs after the move from the text format
NextLegacy ==
    \/ Tick
    \/ Load
    \/ Drop
    \/ Save
    \/ Insert
    \/ Remove
    \/ RecordUsage

SpecLegacy == InitLegacy /\ [][NextLegacy]_vars

\* a store built by load, migration and the commands, then exported
InitAny == Init \/ InitLegacy

NextRound ==
    \/ Load
    \/ Drop
    \/ Register
    \/ Tag
    \/ Rename
    \/ Navigate
    \/ Import
    \/ Export

SpecRound == InitAny /\ [][NextRound]_vars

\* what a step of the second invocation leaves alone
PeerStep ==
    UNCHANGED <<phase, aliases, dirty, text_file, backup_file, now, op, result,
                emitted, prompted, args, stats, steps>>

\* the second invocation starts: Database::load on the shared file
PeerLoad ==
    /\ peer.phase = "none"
    /\ toml_file # <<>>
    /\ peer' = [phase |-> "open", aliases |-> load_toml(toml_file, now), dirty |-> FALSE]
    /\ UNCHANGED toml_file
    /\ PeerStep

\* the second invocation removes "ab" or "zz"
PeerRemove ==
    /\ peer.phase = "open"
    /\ \E name \in {ab, <<122, 122>>} :
          LET d == remove(Db(peer.aliases, peer.dirty), name)
          IN peer' = [peer EXCEPT !.aliases = d.aliases, !.dirty = d.dirty]
    /\ UNCHANGED toml_file
    /\ PeerStep

\* save of the second invocation, as far as File::create inside fs::write
PeerTruncate ==
    /\ peer.phase = "open"
    /\ peer.dirty
    /\ peer' = [peer EXCEPT !.phase = "writing"]
    /\ toml_file' = <<<<>>>>
    /\ PeerStep

\* the rest of that save: write_all, then dirty = false
PeerWrite ==
    /\ peer.phase = "writing"
    /\ peer' = [peer EXCEPT !.phase = "open", !.dirty = FALSE]
    /\ toml_file' = <<write_at_start(toml_file[1], sorted_entries(peer.aliases))>>
    /\ PeerStep

\* two invocations on one file, the first of them saving in one piece
NextRace ==
    \/ Load
    \/ Remove
    \/ Save
    \/ PeerLoad
    \/ PeerRemove
    \/ PeerTruncate
    \/ PeerWrite

SpecRace == InitRace /\ [][NextRace]_vars

\* strings of "a", "b" and "A" up to MaxLen characters
Strings == UNION {[1..k -> {97, 98, 65}] : k \in 0..MaxLen}

\* candidate names: "ab", "ba", "abc" and 25 times "a"; queries: none, "a",
\* "ab", "B", "zz" and 9 times "a"
FuzzyNames == {ab, <<98, 97>>, abc, [i \in 1..25 |-> 97]}
FuzzyQueries == {<<>>, <<97>>, ab, <<66>>, <<122, 122>>, [i \in 1..9 |-> 97]}

\* the arguments of one call of the matcher: two strings for similarity, or
\* a query and distinct candidates in some order for find_matches
InitFuzzy ==
    /\ phase = "none"
    /\ aliases = EmptyMap
    /\ dirty = FALSE
    /\ toml_file = <<>>
    /\ text_file = <<>>
    /\ backup_file = <<>>
    /\ peer = NoPeer
    /\ now = 0
    /\ op = "init"
    /\ result = "Ok"
    /\ emitted = <<>>
    /\ prompted = FALSE
    /\ args \in [s1 : Strings, s2 : Strings]
                \cup UNION {[query : FuzzyQueries, candidates : Orders(S)] :
                               S \in SUBSET FuzzyNames}
    /\ stats = <<>>
    /\ steps = 0

\* fuzzy::similarity on the two strings
Similarity ==
    /\ op = "init"
    /\ steps < MaxSteps
    /\ "s1" \in DOMAIN args
    /\ Ran("similarity", args, "Ok", <<>>, FALSE, <<similarity(args.s1, args.s2)>>)
    /\ UNCHANGED <<phase, aliases, dirty, toml_file, now>>

\* fuzzy::find_matches on the query and the candidates
FindMatches ==
    /\ op = "init"
    /\ steps < MaxSteps
    /\ "query" \in DOMAIN args
    /\ Ran("find_matches", args, "Ok", <<>>, FALSE,
           <<find_matches(args.query, args.candidates)>>)
    /\ UNCHANGED <<phase, aliases, dirty, toml_file, now>>

\* a first load of a file as save writes it, or of one written by hand
\* where a record lists a tag twice
InitTagIndex ==
    /\ phase = "none"
    /\ aliases = EmptyMap
    /\ dirty = FALSE
    /\ text_file = <<>>
    /\ backup_file = <<>>
    /\ peer = NoPeer
    /\ now = 0
    /\ op = "init"
    /\ result = "Ok"
    /\ emitted = <<>>
    /\ prompted = FALSE
    /\ args = <<>>
    /\ stats = <<>>
    /\ steps = 0
    /\ toml_file \in {<<<<Entry(ab, "/f", <<<<<<97>>>>>>, <<1>>, <<0>>, <<0>>),
                         Entry(abc, "/x", <<<<<<97>>, <<98>>>>>>, <<0>>, <<>>, <<0>>)>>>>,
                      <<<<Entry(ab, "/d", <<<<<<97>>, <<97>>>>>>, <<>>, <<>>, <<>>)>>>>}

\* the tag index read between changes of the tags
NextTagIndex ==
    \/ Load
    \/ AddTag
    \/ RemoveTag
    \/ SetTags
    \/ Read

SpecTagIndex == InitTagIndex /\ [][NextTagIndex]_vars

\* the tag command, over and over
NextTagTwice ==
    \/ Load
    \/ Tag

SpecTagTwice == Init /\ [][NextTagTwice]_vars

\* the matcher alone
NextFuzzy ==
    \/ Similarity
    \/ FindMatches

SpecFuzzy == InitFuzzy /\ [][NextFuzzy]_vars

\* a store that is only read
NextReads ==
    \/ Tick
    \/ Load
    \/ Read
    \/ Save
    \/ Drop

SpecReads == Init /\ [][NextReads]_vars

\* import into a store filled by load and insert
NextImport ==
    \/ Load
    \/ Drop
    \/ Insert
    \/ Import

SpecImport == Init /\ [][NextImport]_vars

(***************************************************************************)
(* Properties.                                                             *)
(***************************************************************************)

\* C1: while a Database exists, every record is held under the key equal to
\* its name field, so no two records share a name.
C1_UniqueNames ==
    phase = "open" =>
        /\ \A k \in DOMAIN aliases : aliases[k].name = k
        /\ \A j, k \in DOMAIN aliases : aliases[j].name = aliases[k].name => j = k

\* a rename has moved a record to a new key
C1_Witness ==
    /\ op = "rename_alias"
    /\ result = "Ok"
    /\ args.new_name \in DOMAIN aliases

last_entry(file, name) ==
    LET entries == file[1]
        i == CHOOSE k \in 1..Len(entries) :
                 /\ entries[k].name = name
                 /\ \A j \in (k + 1)..Len(entries) : entries[j].name # name
    IN entries[i]

C9_OccupiedNameRefused ==
    [][(\/ op' \in {"add", "add_with_tags"} /\ args'.name \in DOMAIN aliases
        \/ op' = "rename_alias" /\ args'.new_name \in DOMAIN aliases)
       => (result' = "AlreadyExists" /\ aliases' = aliases)]_vars

\* a rename onto an occupied name was refused with the old record in place
C9_Witness ==
    /\ op = "rename_alias"
    /\ result = "AlreadyExists"
    /\ args.old_name # args.new_name
    /\ args.old_name \in DOMAIN aliases
    /\ args.new_name \in DOMAIN aliases

\* the positions of the payload whose names pass validate_alias
ValidAt(entries) == {i \in 1..Len(entries) : validate_alias(entries[i].name)}

\* the valid positions whose name is taken by the store or by an earlier
\* valid position
CollidingAt(entries, names) ==
    {i \in ValidAt(entries) :
        \/ entries[i].name \in names
        \/ \E j \in ValidAt(entries) : j < i /\ entries[j].name = entries[i].name}

\* C10: under Skip and Rename every record that was in the store before the
\* import is unchanged after it; a colliding payload record is counted as
\* skipped (Skip), or is inserted under another name and counted as renamed
\* (Rename).
C10_ExistingUntouched ==
    [][(op' = "import" /\ args'.strategy \in {"Skip", "Rename"})
       => /\ \A n \in DOMAIN aliases : n \in DOMAIN aliases' /\ aliases'[n] = aliases[n]
          /\ stats' # <<>> =>
                LET entries == args'.content[1]
                    valid == Cardinality(ValidAt(entries))
                    colliding == Cardinality(CollidingAt(entries, DOMAIN aliases))
                    r == stats'[1]
                    grown == Cardinality(DOMAIN aliases') - Cardinality(DOMAIN aliases)
                IN IF args'.strategy = "Skip"
                   THEN /\ r.skipped = Len(entries) - valid + colliding
                        /\ r.renamed = 0
                        /\ grown = valid - colliding
                   ELSE /\ r.renamed >= colliding
                        /\ r.renamed + r.imported = valid
                        /\ r.renamed > 0 \/ colliding = 0
                        /\ r.skipped = Len(entries) - valid
                        /\ grown = valid]_vars

\* an import under Rename has put a colliding record next to the one it
\* collided with
C10_Witness ==
    /\ op = "import"
    /\ result = "Ok"
    /\ args.strategy = "Rename"
    /\ stats[1].renamed > 0
    /\ \E n \in DOMAIN aliases : (n \o <<95, 50>>) \in DOMAIN aliases

\* the candidate navigate suggests: the one with the highest score and,
\* among equals, the first by name
Suggested(query, names) ==
    LET scored == {n \in names : score_candidate(query, n) # <<>>}
        score(n) == score_candidate(query, n)[1].score
    IN {n \in scored :
          \A m \in scored \ {n} : score(n) > score(m) \/ (score(n) = score(m) /\ str_lt(n, m))}

BestScore(query, names) ==
    LET n == CHOOSE x \in Suggested(query, names) : TRUE
    IN score_candidate(query, n)[1].score

\* stdin is not a terminal, or the line typed is not a yes
Declines(stdin) ==
    \/ ~stdin.tty
    \/ /\ ~stdin.fail
       /\ \/ stdin.lines = <<>>
          \/ to_lowercase(trim(stdin.lines[1])) \notin {<<121>>, <<121, 101, 115>>}

\* C3: when navigate succeeds, exactly one alias, the exact or the suggested
\* one, has its use_count increased by one and its last_used set; nothing
\* else changes in any record, and the store has been written to the file.
C3_NavigateRecordsOneUse ==
    [][(op' = "navigate" /\ result' = "Ok")
       => \E n \in DOMAIN aliases :
             /\ IF args'.alias \in DOMAIN aliases THEN n = args'.alias
                ELSE n \in Suggested(args'.alias, DOMAIN aliases)
             /\ aliases' = [aliases EXCEPT ![n] =
                               [@ EXCEPT !.use_count = aliases[n].use_count + 1,
                                         !.last_used = <<now>>]]
             /\ ~dirty'
             /\ toml_file' = <<sorted_entries(aliases')>>
             /\ load_entries(toml_file', now').aliases = aliases']_vars

\* a suggestion was accepted and followed
C3_Witness ==
    /\ op = "navigate"
    /\ result = "Ok"
    /\ prompted
    /\ args.alias \notin DOMAIN aliases
    /\ emitted # <<>>

C5_LowScoreNeverPrompts ==
    [][(/\ op' = "navigate"
        /\ args'.alias \notin DOMAIN aliases
        /\ \/ Suggested(args'.alias, DOMAIN aliases) = {}
           \/ BestScore(args'.alias, DOMAIN aliases) < 700)
       => /\ result' = "NotFound"
          /\ ~prompted']_vars

\* navigate reported NotFound although a candidate matched, on a terminal
C5_Witness ==
    /\ op = "navigate"
    /\ result = "NotFound"
    /\ args.stdin.tty
    /\ Suggested(args.alias, DOMAIN aliases) # {}
    /\ BestScore(args.alias, DOMAIN aliases) > 0

\* C6: on an exact hit whose path does not exist navigate fails with
\* DirectoryNotFound, on one whose path is not a directory with another
\* error; either way no use is recorded, no path printed, nothing written.
C6_BadTargetChangesNothing ==
    [][(op' = "navigate" /\ args'.alias \in DOMAIN aliases
            /\ fs_kind(aliases[args'.alias].path) # "dir")
       => /\ IF fs_kind(aliases[args'.alias].path) = "file"
             THEN result' \notin {"Ok", "DirectoryNotFound"}
             ELSE result' = "DirectoryNotFound"
          /\ aliases' = aliases
          /\ emitted' = <<>>
          /\ toml_file' = toml_file
          /\ dirty' = dirty]_vars

\* navigate hit an alias that points at a regular file
C6_Witness ==
    /\ op = "navigate"
    /\ result = "NotADirectory"
    /\ args.alias \in DOMAIN aliases
    /\ fs_kind(aliases[args.alias].path) = "file"

\* C7: whenever register, tag, rename or navigate returns an error, the
\* records in memory are those before the call.
C7_ErrorLeavesRecords ==
    [][(op' \in {"register", "tag", "rename", "navigate"} /\ result' # "Ok")
       => aliases' = aliases]_vars

\* a tag list that is lowercase, free of duplicates and sorted
NormalizedTags(tags) ==
    /\ \A i \in 1..Len(tags) : tags[i] = to_lowercase(tags[i])
    /\ \A i, j \in 1..Len(tags) : i < j => str_lt(tags[i], tags[j])

\* C8: in every reachable state each record's tag list is all-lowercase,
\* free of duplicates and sorted.
C8_TagsNormalized ==
    \A n \in DOMAIN aliases : NormalizedTags(aliases[n].tags)

\* n_k for a single-digit k
Suffixed(n, k) == n \o <<95, 48 + k>>

\* n_k for the smallest k >= 2 with n_k not in used
SmallestFree(n, used) ==
    LET k == CHOOSE k \in 2..9 :
                 /\ Suffixed(n, k) \notin used
                 /\ \A j \in 2..(k - 1) : Suffixed(n, j) \in used
    IN Suffixed(n, k)

\* the name each payload record is to be stored under with the Rename
\* strategy (<<>> for a record with an invalid name), given the names used
\* so far
RECURSIVE RenamePlan(_, _)
RenamePlan(entries, used) ==
    IF entries = <<>> THEN <<>>
    ELSE LET n == Head(entries).name
         IN IF ~validate_alias(n) THEN <<<<>>>> \o RenamePlan(Tail(entries), used)
            ELSE LET target == IF n \in used THEN SmallestFree(n, used) ELSE n
                 IN <<<<target>>>> \o RenamePlan(Tail(entries), used \cup {target})

\* C11: under Rename a colliding payload record named n is stored under
\* n_k for the smallest k >= 2 such that n_k is neither a name present
\* before the import nor one inserted or generated earlier in the same run.
C11_RenameTakesSmallestFreeSuffix ==
    [][(op' = "import" /\ result' = "Ok" /\ args'.strategy = "Rename")
       => LET entries == args'.content[1]
              plan == RenamePlan(entries, DOMAIN aliases)
              stored == {i \in 1..Len(entries) : plan[i] # <<>>}
          IN /\ DOMAIN aliases' = DOMAIN aliases \cup {plan[i][1] : i \in stored}
             /\ \A i \in stored :
                   aliases'[plan[i][1]] =
                       [deserialize(entries[i], now) EXCEPT !.name = plan[i][1]]]_vars

\* an import that had to go past n_2: two records were renamed and one of
\* them sits under a name ending in _3
C11_Witness ==
    /\ op = "import"
    /\ result = "Ok"
    /\ args.strategy = "Rename"
    /\ stats[1].renamed >= 2
    /\ \E n \in AliasNames : Suffixed(n, 3) \in DOMAIN aliases

\* the payload records whose name is valid, in payload order
RECURSIVE ValidEntries(_)
ValidEntries(entries) ==
    IF entries = <<>> THEN <<>>
    ELSE IF validate_alias(Head(entries).name)
    THEN <<Head(entries)>> \o ValidEntries(Tail(entries))
    ELSE ValidEntries(Tail(entries))

\* C12: an import that gets past parsing is never aborted by a record: a
\* record with an invalid name adds a warning, counts as skipped and is not
\* inserted; a record whose path does not exist adds a warning and is
\* processed like any other; the remaining records end as they would have
\* ended had the invalid ones not been in the payload.
C12_BadRecordsDoNotAbort ==
    [][(op' = "import" /\ args'.content # <<>> /\ args'.content[1] # <<>>)
       => LET entries == args'.content[1]
              strategy == args'.strategy
              kept == ValidEntries(entries)
              invalid == {i \in 1..Len(entries) : ~validate_alias(entries[i].name)}
              missing == {i \in 1..Len(entries) \ invalid : fs_kind(entries[i].path) = "missing"}
              alone == import_from_content(db, <<kept>>, strategy, now)
          IN /\ result' \in {"Ok", "Io"}
             /\ \A i \in invalid :
                   /\ entries[i].name \in DOMAIN aliases' => entries[i].name \in DOMAIN aliases
                   /\ entries[i].name \in DOMAIN aliases =>
                         aliases'[entries[i].name] = aliases[entries[i].name]
             /\ \A i \in missing :
                   entries[i].name \notin DOMAIN aliases => entries[i].name \in DOMAIN aliases'
             /\ aliases' = IF kept = <<>> THEN aliases ELSE alone.db.aliases
             /\ result' = "Ok" =>
                   /\ Len(stats'[1].warnings) = Cardinality(invalid) + Cardinality(missing)
                   /\ stats'[1].skipped >= Cardinality(invalid)
                   /\ kept # <<>> =>
                         /\ stats'[1].imported = alone.result.imported
                         /\ stats'[1].renamed = alone.result.renamed
                         /\ stats'[1].skipped = alone.result.skipped + Cardinality(invalid)]_vars

\* an import that skipped a record with an invalid name and imported the
\* record that came after it
C12_Witness ==
    /\ op = "import"
    /\ result = "Ok"
    /\ stats[1].imported >= 1
    /\ \E i \in 1..Len(stats[1].warnings) : stats[1].warnings[i].kind = "invalid"

\* C13: import of a payload that does not parse, or that holds no alias,
\* fails, leaves the records and the dirty flag as they were and writes
\* nothing.
C13_BadPayloadChangesNothing ==
    [][(op' = "import" /\ (args'.content = <<>> \/ args'.content[1] = <<>>))
       => /\ result' = (IF args'.content = <<>> THEN "TomlDe" ELSE "NoAliases")
          /\ aliases' = aliases
          /\ dirty' = dirty
          /\ toml_file' = toml_file
          /\ stats' = <<>>]_vars

\* a payload without aliases was refused by a store with unsaved changes
C13_Witness ==
    /\ op = "import"
    /\ result = "NoAliases"
    /\ dirty
    /\ toml_file # <<sorted_entries(aliases)>>

\* C14: a successful import calls save once, after the last payload record,
\* however many records there are; the file is the one that single save
\* leaves.
C14_OneSaveAfterTheBatch ==
    [][(op' = "import" /\ result' = "Ok")
       => LET entries == args'.content[1]
              calls == stats'[2]
          IN /\ Len(calls) = Len(entries) + 1
             /\ \A i \in 1..Len(entries) : calls[i] = "record"
             /\ calls[Len(calls)] = "save"
             /\ ~dirty'
             /\ toml_file' = IF dirty \/ aliases' # aliases
                             THEN <<sorted_entries(aliases')>>
                             ELSE toml_file]_vars

\* an import of two records that wrote the file
C14_Witness ==
    /\ op = "import"
    /\ result = "Ok"
    /\ Len(args.content[1]) = 2
    /\ stats[1].imported + stats[1].renamed = 2
    /\ stats[2] = <<"record", "record", "save">>
    /\ toml_file = <<sorted_entries(aliases)>>

\* a line of the form '<name> <path>': not blank, not a comment, with a
\* space after its first word
TrimmedLine(lines, i) == trim(lines[i])

IsEntryLine(lines, i) ==
    LET l == TrimmedLine(lines, i)
    IN /\ l # <<>>
       /\ l[1] # 35
       /\ \E k \in 1..Len(l) : l[k] = 32

SplitAt(lines, i) ==
    LET l == TrimmedLine(lines, i)
    IN CHOOSE k \in 1..Len(l) : l[k] = 32 /\ \A j \in 1..(k - 1) : l[j] # 32

NameOf(lines, i) == SubSeq(TrimmedLine(lines, i), 1, SplitAt(lines, i) - 1)

PathOf(lines, i) ==
    from_chars(SubSeq(TrimmedLine(lines, i), SplitAt(lines, i) + 1,
                      Len(TrimmedLine(lines, i))))

EntryLines(lines) == {i \in 1..Len(lines) : IsEntryLine(lines, i)}

\* a load that migrates: no TOML file, a legacy file
Migrates == op' = "load" /\ toml_file = <<>> /\ text_file # <<>> /\ result' = "Ok"

C15_ExportImportRoundTrip ==
    [][op' = "export"
       => \A strategy \in Strategies :
             import_from_content(Db(EmptyMap, FALSE), printed_content(emitted'),
                                 strategy, now).db.aliases = aliases]_vars

\* C17: tearing down a store with unsaved changes writes its records to
\* the file, so that a load of the file gives back those records; when the
\* write fails the file stays as it was, and either way teardown reports
\* nothing.
C17_TeardownFlushes ==
    [][op' = "drop"
       => /\ result' = "Ok"
          /\ phase' = "none"
          /\ (dirty /\ stats' = <<"Ok">>) =>
                /\ toml_file' = <<sorted_entries(aliases)>>
                /\ load_entries(toml_file', now').aliases = aliases
          /\ (~dirty \/ stats' # <<"Ok">>) => toml_file' = toml_file]_vars

\* a store with unsaved changes was torn down and its records reached a
\* file that did not hold them before
C17_Witness ==
    /\ op = "drop"
    /\ args.dirty
    /\ stats = <<"Ok">>
    /\ toml_file # <<>>
    /\ toml_file[1] # <<>>

\* C18: the read operations change neither the records nor the dirty flag
\* nor the file, and on a store that is not dirty neither save nor teardown
\* writes the file: a store that is only read after load never writes.
C18_ReadsNeverWrite ==
    [][/\ op' \in ReadOps =>
             (aliases' = aliases /\ dirty' = dirty /\ toml_file' = toml_file)
       /\ (op' \in {"save", "drop"} /\ ~dirty) => (toml_file' = toml_file /\ result' = "Ok")
       /\ dirty' = FALSE]_vars

\* save returned on a store that was only loaded and read, whose file is
\* not what a write would have left
C18_Witness ==
    /\ op = "save"
    /\ result = "Ok"
    /\ steps = 3
    /\ DOMAIN aliases # {}
    /\ toml_file # <<sorted_entries(aliases)>>

\* C19: when stdin is not a terminal, navigate, tag and register get the
\* default (no) from every confirmation they ask for, and nothing is read
\* from stdin: a command that asked ends cancelled, whatever stdin holds.
C19_NoReadWithoutTerminal ==
    [][(op' \in {"navigate", "tag", "register"} /\ ~args'.stdin.tty)
       => /\ \A default \in BOOLEAN :
                confirm(default, args'.stdin) =
                    [res |-> "Ok", value |-> default, stdin |-> args'.stdin]
          /\ prompted' =>
                /\ result' = (IF op' = "navigate" THEN "NavigationCancelled"
                              ELSE "TagCreationCancelled")
                /\ aliases' = aliases
                /\ emitted' = <<>>]_vars

\* register asked about a new tag with "y" waiting in a pipe and was
\* cancelled
C19_Witness ==
    /\ op = "register"
    /\ ~args.stdin.tty
    /\ args.stdin.lines # <<>>
    /\ ~args.force
    /\ prompted
    /\ result = "TagCreationCancelled"

\* C20: with two invocations on one file and no lock, every save that
\* completes leaves the file equal to the records of the invocation that
\* wrote: loading it gives exactly those records.
C20_LastWriterWins ==
    [][/\ (op' = "save" /\ steps' = steps + 1 /\ dirty /\ result' = "Ok")
            => load_toml(toml_file', now) = aliases
       /\ (peer.phase = "writing" /\ peer'.phase = "open")
            => load_toml(toml_file', now) = peer.aliases]_vars

\* C21: for a non-empty query find_matches returns its results by score
\* descending and, among equal scores, by name ascending, and returns the
\* same list for every order of the same distinct candidates (navigate
\* suggests the head of that list).
C21_MatchesOrderedAndOrderFree ==
    (op = "find_matches" /\ args.query # <<>>)
        => LET r == stats[1]
           IN /\ \A i, j \in 1..Len(r) :
                    i < j => \/ r[i].score > r[j].score
                             \/ r[i].score = r[j].score /\ str_lt(r[i].name, r[j].name)
              /\ \A other \in Orders(Range(args.candidates)) :
                    find_matches(args.query, other) = r

\* two candidates of one score were handed over in descending order of name
C21_Witness ==
    /\ op = "find_matches"
    /\ args.query # <<>>
    /\ \E i, j \in 1..Len(args.candidates) :
          /\ i < j
          /\ str_lt(args.candidates[j], args.candidates[i])
          /\ \E k \in 1..(Len(stats[1]) - 1) :
                /\ stats[1][k].name = args.candidates[j]
                /\ stats[1][k + 1].name = args.candidates[i]
                /\ stats[1][k].score = stats[1][k + 1].score

\* the edit distance by its definition: the fewest insertions, deletions
\* and substitutions of one character
RECURSIVE EditDistance(_, _)
EditDistance(a, b) ==
    IF a = <<>> THEN Len(b)
    ELSE IF b = <<>> THEN Len(a)
    ELSE IF Head(a) = Head(b) THEN EditDistance(Tail(a), Tail(b))
    ELSE 1 + Min(Min(EditDistance(Tail(a), b), EditDistance(a, Tail(b))),
                 EditDistance(Tail(a), Tail(b)))

FloorScore(query, candidate) ==
    LET sim == similarity(query, candidate)
    IN Max((1000 * (sim.m - sim.d)) \div sim.m,
           (500 * (Len(candidate) + Len(query))) \div Len(candidate))

\* the entries of a result under one name
EntriesOf(r, name) == {i \in 1..Len(r) : r[i].name = name}

\* a candidate that does not contain the query is in the result exactly when
\* its raw similarity is at least 0.3
RawThreshold(query, candidate, r) ==
    LET sim == similarity(query, candidate)
    IN (EntriesOf(r, candidate) # {}) <=> (10 * (sim.m - sim.d) >= 3 * sim.m)

C24_RenameCarriesFields ==
    [][(op' = "rename_alias" /\ steps' = steps + 1 /\ result' = "Ok")
       => LET old == args'.old_name
              new == args'.new_name
          IN /\ old \in DOMAIN aliases
             /\ DOMAIN aliases' = (DOMAIN aliases \ {old}) \cup {new}
             /\ old \notin DOMAIN aliases'
             /\ aliases'[new].name = new
             /\ aliases'[new].path = aliases[old].path
             /\ aliases'[new].tags = aliases[old].tags
             /\ aliases'[new].use_count = aliases[old].use_count
             /\ aliases'[new].last_used = aliases[old].last_used
             /\ aliases'[new].created_at = aliases[old].created_at
             /\ \A k \in DOMAIN aliases \ {old} : aliases'[k] = aliases[k]]_vars

\* a used and tagged record was renamed next to another record
C24_Witness ==
    /\ op = "rename_alias"
    /\ result = "Ok"
    /\ aliases[args.new_name].use_count > 0
    /\ aliases[args.new_name].last_used # <<>>
    /\ aliases[args.new_name].tags # <<>>
    /\ Cardinality(DOMAIN aliases) > 1

\* C25: while a store is open, no operation on it (register, tag, rename,
\* navigate, import, export) lowers the use_count of a record that stays
\* under its name.
C25_UseCountNeverDecreases ==
    [][(phase = "open" /\ phase' = "open")
       => \A n \in DOMAIN aliases \cap DOMAIN aliases' :
             aliases'[n].use_count >= aliases[n].use_count]_vars

\* C26: every record of an open store has a name matching the alias
\* pattern: first character alphanumeric, every further one alphanumeric,
\* dash, underscore or dot.
C26_NamesMatchPattern ==
    phase = "open" =>
        \A n \in DOMAIN aliases :
            /\ VALID_ALIAS_PATTERN(n)
            /\ VALID_ALIAS_PATTERN(aliases[n].name)

\* the records of the store that carry tag t
Carriers(t) == {n \in DOMAIN aliases : \E i \in 1..Len(aliases[n].tags) : aliases[n].tags[i] = t}

\* the tags carried by some record of the store
CarriedTags == {t \in UNION {Range(aliases[n].tags) : n \in DOMAIN aliases} : Carriers(t) # {}}

\* C27: get_all_tags() maps each tag carried by some record to the number
\* of records that carry it and holds no other tag, and all_tags() is the
\* sorted list, free of duplicates, of the keys of that map.
C27_TagIndexCountsCarriers ==
    /\ op = "get_all_tags"
          => stats[1] = [t \in CarriedTags |-> Cardinality(Carriers(t))]
    /\ op = "all_tags"
          => /\ Range(stats[1]) = CarriedTags
             /\ \A i, j \in 1..Len(stats[1]) : i < j => str_lt(stats[1][i], stats[1][j])

\* C28: navigate emits the path only after the store has been persisted: a
\* navigate call that does not succeed, its persist having failed, has
\* emitted no path.
C28_NoPathBeforePersist ==
    [][(op' = "navigate" /\ steps' = steps + 1 /\ result' # "Ok") => emitted' = <<>>]_vars

\* C30: a load that migrates renames the legacy file only once the TOML file
\* has been written; when that write fails load returns the error and the
\* legacy file stays; no step leaves the records in neither file; and a
\* load that finds a TOML file reads it and leaves the legacy file and the
\* backup alone.
C30_RenameAfterWrite ==
    [][/\ text_file' # text_file
          => /\ op' = "load"
             /\ toml_file = <<>>
             /\ result' = "Ok"
             /\ toml_file' = <<sorted_entries(aliases')>>
             /\ text_file' = <<>>
             /\ backup_file' = text_file
       /\ (op' = "load" /\ steps' = steps + 1 /\ toml_file = <<>> /\ text_file # <<>>)
          => /\ ~args'.io_ok => (result' = "Io" /\ phase' = "none" /\ text_file' = text_file
                                 /\ toml_file' = <<>>)
             /\ args'.io_ok => (result' = "Ok" /\ toml_file' # <<>>)
       /\ (text_file # <<>> \/ toml_file # <<>>) => (text_file' # <<>> \/ toml_file' # <<>>)
       /\ (op' = "load" /\ steps' = steps + 1 /\ toml_file # <<>>)
          => /\ text_file' = text_file
             /\ backup_file' = backup_file
             /\ toml_file' = toml_file
             /\ aliases' = load_toml(toml_file, now)]_vars

\* a migration whose rename failed, a teardown, and a second load that found
\* the TOML file and left the legacy file where it was
C30_Witness ==
    /\ op = "load"
    /\ steps = 3
    /\ phase = "open"
    /\ text_file # <<>>
    /\ backup_file = <<>>
    /\ toml_file # <<>>
    /\ Cardinality(DOMAIN aliases) = 2

====
